---------------------------- MODULE Spec2Model ----------------------------
(***************************************************************************)
(* A model of the xlnt spreadsheet kernel (src/src/kernel/kernel.rs and    *)
(* src/src/kernel/arithmetic.rs).                                          *)
(*                                                                         *)
(* Five independent parts of the kernel are modelled, each with its own    *)
(* specification over the shared variables:                                *)
(*   SpecNumeric  Numeric::value and Numeric::try_add                      *)
(*   SpecValue    impl From<&str> for Value                                *)
(*   SpecCodec    column_to_u64 and split_id applied as functions          *)
(*   SpecColumn   column_to_u64 and ipow executed call by call             *)
(*   SpecKernel   the Kernel trait (set_cell, evaluate_cell)               *)
(* A part that is not running keeps its variables at their idle values.    *)
(*                                                                         *)
(* Numbers.  The magnitude type T is a floating type (f32, f64).  It is    *)
(* modelled as a fixed-point rational: the integer n stands for the        *)
(* number n / Scale.  Scale is Hundred * Hundred, so dividing an integral  *)
(* magnitude by 100 twice is exact; rounding of the floating division is   *)
(* outside the model.                                                      *)
(*                                                                         *)
(* Text.  A &str is a sequence of bytes (ASCII codes).                     *)
(***************************************************************************)
EXTENDS Integers, Sequences, FiniteSets, TLC

VARIABLES
    a, b,            \* Numeric part: the two operands
    valueOut,        \* Numeric part: result of a.value()
    addOut,          \* Numeric part: result of a.try_add(b)
    text,            \* Value part: the cell text given to Value::from
    fromOut,         \* Value part: the Value it returned
    label,           \* Codec part: the label to decode
    colOut,          \* Codec part: column_to_u64(label)
    upperOut,        \* Codec part: column_to_u64 of the upper-case form
    lowerOut,        \* Codec part: column_to_u64 of the lower-case form
    splitOut,        \* Codec part: split_id(label)
    input,           \* Column part: the argument of the outermost call
    stack,           \* Column part: the call stack, innermost frame last
    ret,             \* Column part: the value the last return handed back
    maxDepth,        \* Column part: the deepest the call stack has been
    cells,           \* Kernel part: the cell store, CellId -> Cell or Empty
    deps,            \* Kernel part: dependency graph, CellId -> referenced ids
    cache,           \* Kernel part: cached results, CellId -> result or Invalid
    op,              \* Kernel part: the last operation called
    out              \* Kernel part: what the last evaluate_cell returned

numericVars == <<a, b, valueOut, addOut>>
valueVars == <<text, fromOut>>
codecVars == <<label, colOut, upperOut, lowerOut, splitOut>>
columnVars == <<input, stack, ret, maxDepth>>
kernelVars == <<cells, deps, cache, op, out>>
vars == <<numericVars, valueVars, codecVars, columnVars, kernelVars>>

Idle == [tag |-> "Idle"]
NotYet == [tag |-> "NotYet"]

(***************************************************************************)
(* Bounds of the model.                                                    *)
(***************************************************************************)
MaxMagnitude == 5      \* magnitudes are 0, 10, ..., 10 * MaxMagnitude
MaxTextLen == 3        \* longest cell text given to Value::from
MaxLabelLen == 3       \* longest label given to the address decoder
NumCols == 3           \* the kernel's grid is the cells A1, B1, ... of row 1

(***************************************************************************)
(* Numeric model: kernel.rs lines 9-61.                                    *)
(***************************************************************************)
Hundred == 100
Scale == Hundred * Hundred

\* Option<NumericAttribute>
NoAttr == [kind |-> "None"]
Percent == [kind |-> "Percent"]
Currency(s) == [kind |-> "Currency", sym |-> s]

Symbols == {"$", "EUR"}
Attributes == {NoAttr, Percent} \cup {Currency(s) : s \in Symbols}

\* struct Numeric { number, attr }
Numeric(n, at) == [number |-> n, attr |-> at]

Magnitudes == {10 * m * Scale : m \in 0..MaxMagnitude}
Numerics == {Numeric(n, at) : n \in Magnitudes, at \in Attributes}

\* Option<Numeric>
None == [tag |-> "None"]
Some(x) == [tag |-> "Some", v |-> x]

\* A plausible slip: the Percent adjustment is forgotten.
value_unadjusted(self) == self.number

\* Numeric::value
value(self) ==
    IF self.attr = NoAttr
    THEN self.number
    ELSE IF self.attr = Percent
         THEN self.number \div Hundred
         ELSE self.number

\* A plausible slip: a mismatch keeps the left attribute instead of failing.
try_add_coerces(self, other) ==
    IF self.attr = NoAttr
    THEN Some(Numeric(value(self) + value(other), other.attr))
    ELSE Some(Numeric(value(self) + value(other), self.attr))

\* Numeric::try_add
try_add(self, other) ==
    IF self.attr = NoAttr
    THEN Some(Numeric(value(self) + value(other), other.attr))
    ELSE IF other.attr = NoAttr
         THEN Some(Numeric(value(self) + value(other), self.attr))
         ELSE IF self.attr = other.attr
              THEN Some(Numeric(value(self) + value(other), self.attr))
              ELSE None

(***************************************************************************)
(* Text helpers: &str as a sequence of bytes.                              *)
(***************************************************************************)
SeqsUpTo(S, n) == UNION {[1..k -> S] : k \in 0..n}

\* char::is_whitespace restricted to ASCII: tab, LF, VT, FF, CR, space
Whitespace == {9, 10, 11, 12, 13, 32}

RECURSIVE TrimStart(_)
TrimStart(s) ==
    IF s # <<>> /\ Head(s) \in Whitespace THEN TrimStart(Tail(s)) ELSE s

RECURSIVE TrimEnd(_)
TrimEnd(s) ==
    IF s # <<>> /\ s[Len(s)] \in Whitespace
    THEN TrimEnd(SubSeq(s, 1, Len(s) - 1))
    ELSE s

\* str::trim
Trim(s) == TrimEnd(TrimStart(s))

\* str::starts_with(char)
StartsWith(s, c) == s # <<>> /\ Head(s) = c

Digits == 48..57
UpperLetters == 65..90
LowerLetters == 97..122

Ok(x) == [ok |-> TRUE, v |-> x]
Err(e) == [ok |-> FALSE, e |-> e]

(***************************************************************************)
(* Cell ids and the parsed value of a cell: kernel.rs lines 63-79 and      *)
(* 143-220.                                                                *)
(***************************************************************************)
\* CellId::new
CellId(row, col) == [row |-> row, col |-> col]

RECURSIVE DecimalValue(_)
DecimalValue(s) ==
    IF s = <<>> THEN 0
    ELSE 10 * DecimalValue(SubSeq(s, 1, Len(s) - 1)) + (s[Len(s)] - 48)

AllIn(s, S) == \A i \in 1..Len(s) : s[i] \in S

\* Primitive::try_from is unimplemented!() in the source.  The literal
\* parser is taken from the specification (4.3), cut down to unsigned
\* decimal integers: anything else is not a recognised literal.
PrimitiveTryFrom(s) ==
    IF s # <<>> /\ AllIn(s, Digits)
    THEN Ok(Numeric(DecimalValue(s) * Scale, NoAttr))
    ELSE Err([kind |-> "NotALiteral"])

\* The cell a one-letter, one-digit label names: column A is 0, row as written.
LabelCell(letter, digit) ==
    CellId(digit - 48,
           IF letter \in UpperLetters THEN letter - 65 ELSE letter - 97)

\* Formula::try_from is unimplemented!() in the source.  The formula parser
\* is taken from the specification (4.3), cut down to the expressions
\* <label> and <label>+<digits> over one-letter, one-digit labels: anything
\* else is a malformed expression.
FormulaTryFrom(s) ==
    IF Len(s) = 2 /\ s[1] \in UpperLetters \cup LowerLetters /\ s[2] \in Digits
    THEN Ok([node |-> "CellRef", ref |-> LabelCell(s[1], s[2])])
    ELSE IF /\ Len(s) >= 4
            /\ s[1] \in UpperLetters \cup LowerLetters
            /\ s[2] \in Digits
            /\ s[3] = 43
            /\ AllIn(SubSeq(s, 4, Len(s)), Digits)
         THEN Ok([node |-> "Add",
                  ref |-> LabelCell(s[1], s[2]),
                  num |-> Numeric(DecimalValue(SubSeq(s, 4, Len(s))) * Scale,
                                  NoAttr)])
         ELSE Err([kind |-> "Malformed"])

\* enum Value.  The field arg is not in the program: it records the text
\* the parser was handed, so that properties can speak about it.
ValueRaw(arg) == [kind |-> "Raw", arg |-> arg]
ValuePrimitive(arg, p) == [kind |-> "Primitive", arg |-> arg, prim |-> p]
ValueFormula(arg, f) == [kind |-> "Formula", arg |-> arg, formula |-> f]
ValueFormulaParseError(arg, e) ==
    [kind |-> "FormulaParseError", arg |-> arg, err |-> e]

\* A plausible slip: the text is classified without being trimmed first.
ValueFrom_untrimmed(t) ==
    IF ~StartsWith(t, 61)
    THEN LET p == PrimitiveTryFrom(t)
         IN  IF p.ok THEN ValuePrimitive(t, p.v) ELSE ValueRaw(t)
    ELSE LET remainder == SubSeq(t, 2, Len(t))
             f == FormulaTryFrom(remainder)
         IN  IF f.ok
             THEN ValueFormula(remainder, f.v)
             ELSE ValueFormulaParseError(remainder, f.e)

\* impl From<&str> for Value
ValueFrom(t) ==
    LET v == Trim(t)
    IN  IF ~StartsWith(v, 61)
        THEN LET p == PrimitiveTryFrom(v)
             IN  IF p.ok THEN ValuePrimitive(v, p.v) ELSE ValueRaw(v)
        ELSE LET remainder == SubSeq(v, 2, Len(v))
                 f == FormulaTryFrom(remainder)
             IN  IF f.ok
                 THEN ValueFormula(remainder, f.v)
                 ELSE ValueFormulaParseError(remainder, f.e)

\* impl From<String> for Cell
CellFrom(s) == [raw |-> s, value |-> ValueFrom(s)]

(***************************************************************************)
(* Address decoding as functions: kernel.rs lines 81-135.                  *)
(* The products stay below 26^(MaxLabelLen), far from the u64 range, so    *)
(* the arithmetic is written without the wrap at 2^64.                     *)
(***************************************************************************)
UnexpectedChar(c) == [kind |-> "UnexpectedChar", c |-> c]
DidntStartAlpha == [kind |-> "DidntStartAlpha"]
DidntContainNumber == [kind |-> "DidntContainNumber"]

Radix == 26

\* The pattern 'A'..'Z' excludes its upper end: it matches 'A' to 'Y'.
UpperArm == 65..89
\* The pattern 'a'..'z' excludes its upper end: it matches 'a' to 'y'.
LowerArm == 97..121

RECURSIVE ipow(_, _)
ipow(x, pow) ==
    IF pow = 0 THEN 1
    ELSE IF pow = 1 THEN x
         ELSE x * ipow(x, pow - 1)

\* A plausible slip: the lower-case arm subtracts b'A' like the upper one.
LowerDigit_upper_base(c) == c - 65

\* The digit a lower-case letter stands for: c - b'a'.
LowerDigit(c) == c - 97

RECURSIVE column_to_u64(_)
column_to_u64(column) ==
    IF Len(column) = 0 THEN Ok(0)
    ELSE LET c == column[1]
             s2 == Tail(column)
         IN  IF c \in UpperArm
             THEN LET res == (c - 65) * ipow(Radix, Len(s2))
                      r == column_to_u64(s2)
                  IN  IF r.ok THEN Ok(r.v + res) ELSE r
             ELSE IF c \in LowerArm
                  THEN LET res == LowerDigit(c) * ipow(Radix, Len(s2))
                           r == column_to_u64(s2)
                       IN  IF r.ok THEN Ok(r.v + res) ELSE r
                  ELSE Err(UnexpectedChar(c))

\* split_id: the body is the single expression Err(DidntStartAlpha).
split_id(s) == Err(DidntStartAlpha)

(***************************************************************************)
(* Idle values of the parts that are not running.                          *)
(***************************************************************************)
NumericIdle == a = Idle /\ b = Idle /\ valueOut = Idle /\ addOut = Idle
ValueIdle == text = Idle /\ fromOut = Idle
CodecIdle ==
    label = Idle /\ colOut = Idle /\ upperOut = Idle /\ lowerOut = Idle
    /\ splitOut = Idle
ColumnIdle == input = Idle /\ stack = Idle /\ ret = Idle /\ maxDepth = 0
KernelIdle ==
    cells = Idle /\ deps = Idle /\ cache = Idle /\ op = Idle /\ out = Idle

(***************************************************************************)
(* SpecNumeric: value() and try_add() applied to every pair of operands.   *)
(***************************************************************************)
InitNumeric ==
    /\ a \in Numerics
    /\ b \in Numerics
    /\ valueOut = NotYet
    /\ addOut = NotYet
    /\ ValueIdle /\ CodecIdle /\ ColumnIdle /\ KernelIdle

\* a.value()
CallValue ==
    /\ valueOut = NotYet
    /\ valueOut' = [v |-> value(a)]
    /\ UNCHANGED <<a, b, addOut, valueVars, codecVars, columnVars, kernelVars>>

\* a.try_add(b)
CallTryAdd ==
    /\ addOut = NotYet
    /\ addOut' = try_add(a, b)
    /\ UNCHANGED <<a, b, valueOut, valueVars, codecVars, columnVars, kernelVars>>

NextNumeric == CallValue \/ CallTryAdd

SpecNumeric == InitNumeric /\ [][NextNumeric]_vars

(***************************************************************************)
(* SpecValue: Value::from applied to every short text over an alphabet     *)
(* that holds a blank, '=', a letter, a digit and '+'.                     *)
(***************************************************************************)
ValueAlphabet == {32, 61, 65, 49, 43}
Texts == SeqsUpTo(ValueAlphabet, MaxTextLen)

InitValue ==
    /\ text \in Texts
    /\ fromOut = NotYet
    /\ NumericIdle /\ CodecIdle /\ ColumnIdle /\ KernelIdle

\* Value::from(text)
CallValueFrom ==
    /\ fromOut = NotYet
    /\ fromOut' = ValueFrom(text)
    /\ UNCHANGED <<text, numericVars, codecVars, columnVars, kernelVars>>

NextValue == CallValueFrom

SpecValue == InitValue /\ [][NextValue]_vars

(***************************************************************************)
(* SpecCodec: the decoding functions applied to every short label over an  *)
(* alphabet that holds both ends of both letter ranges, a digit and a      *)
(* character that is neither.                                              *)
(***************************************************************************)
LabelAlphabet == {65, 66, 90, 97, 122, 49, 36}
Labels == SeqsUpTo(LabelAlphabet, MaxLabelLen)

\* u8::to_ascii_uppercase and to_ascii_lowercase, byte by byte
ToUpper(s) ==
    [i \in 1..Len(s) |-> IF s[i] \in LowerLetters THEN s[i] - 32 ELSE s[i]]
ToLower(s) ==
    [i \in 1..Len(s) |-> IF s[i] \in UpperLetters THEN s[i] + 32 ELSE s[i]]

InitCodec ==
    /\ label \in Labels
    /\ colOut = NotYet
    /\ upperOut = NotYet
    /\ lowerOut = NotYet
    /\ splitOut = NotYet
    /\ NumericIdle /\ ValueIdle /\ ColumnIdle /\ KernelIdle

\* column_to_u64(label)
CallColumn ==
    /\ colOut = NotYet
    /\ colOut' = column_to_u64(label)
    /\ UNCHANGED <<label, upperOut, lowerOut, splitOut,
                   numericVars, valueVars, columnVars, kernelVars>>

\* column_to_u64 of the label written in upper case and in lower case
CallColumnFolded ==
    /\ upperOut = NotYet
    /\ upperOut' = column_to_u64(ToUpper(label))
    /\ lowerOut' = column_to_u64(ToLower(label))
    /\ UNCHANGED <<label, colOut, splitOut,
                   numericVars, valueVars, columnVars, kernelVars>>

\* split_id(label)
CallSplitId ==
    /\ splitOut = NotYet
    /\ splitOut' = split_id(label)
    /\ UNCHANGED <<label, colOut, upperOut, lowerOut,
                   numericVars, valueVars, columnVars, kernelVars>>

NextCodec == CallColumn \/ CallColumnFolded \/ CallSplitId

SpecCodec == InitCodec /\ [][NextCodec]_vars

(***************************************************************************)
(* SpecColumn: column_to_u64 and ipow executed call by call, kernel.rs     *)
(* lines 93-131.  A frame of the call stack holds the arguments of one     *)
(* call and the place the call has reached; every action is one call or    *)
(* one return.                                                             *)
(***************************************************************************)
ColumnFrame(s) == [fn |-> "column_to_u64", column |-> s, pc |-> "entry", res |-> 0]
IpowFrame(x, pow) == [fn |-> "ipow", x |-> x, pow |-> pow, pc |-> "entry"]

Top == stack[Len(stack)]
Popped == SubSeq(stack, 1, Len(stack) - 1)
Max(x, y) == IF x >= y THEN x ELSE y

\* the running call returns r to its caller
Return(r) ==
    /\ stack' = Popped
    /\ ret' = r
    /\ maxDepth' = maxDepth

\* the running call moves to place pc (keeping res) and calls frame
Call(pc, res, frame) ==
    /\ stack' = Append(Popped, [Top EXCEPT !.pc = pc, !.res = res]) \o <<frame>>
    /\ ret' = NotYet
    /\ maxDepth' = Max(maxDepth, Len(stack) + 1)

Running(fn, pc) == stack # <<>> /\ Top.fn = fn /\ Top.pc = pc

InitColumn ==
    /\ input \in Labels
    /\ stack = <<ColumnFrame(input)>>
    /\ ret = NotYet
    /\ maxDepth = 1
    /\ NumericIdle /\ ValueIdle /\ CodecIdle /\ KernelIdle

\* column_to_u64, from its entry to the call of ipow or an early return
ColumnEnter ==
    /\ Running("column_to_u64", "entry")
    /\ IF Len(Top.column) = 0
       THEN Return(Ok(0))
       ELSE IF Top.column[1] \in UpperArm \cup LowerArm
            THEN Call("ipow", 0, IpowFrame(Radix, Len(Tail(Top.column))))
            ELSE Return(Err(UnexpectedChar(Top.column[1])))
    /\ UNCHANGED <<input, numericVars, valueVars, codecVars, kernelVars>>

\* column_to_u64, from the return of ipow to the recursive call
ColumnRecurse ==
    /\ Running("column_to_u64", "ipow")
    /\ LET c == Top.column[1]
           digit == IF c \in UpperArm THEN c - 65 ELSE LowerDigit(c)
       IN  Call("rec", digit * ret.u64, ColumnFrame(Tail(Top.column)))
    /\ UNCHANGED <<input, numericVars, valueVars, codecVars, kernelVars>>

\* column_to_u64, from the return of the recursive call to its own return
ColumnReturn ==
    /\ Running("column_to_u64", "rec")
    /\ Return(IF ret.ok THEN Ok(ret.v + Top.res) ELSE ret)
    /\ UNCHANGED <<input, numericVars, valueVars, codecVars, kernelVars>>

\* ipow, from its entry to a return or the recursive call
IpowEnter ==
    /\ Running("ipow", "entry")
    /\ IF Top.pow = 0
       THEN Return([u64 |-> 1])
       ELSE IF Top.pow = 1
            THEN Return([u64 |-> Top.x])
            ELSE /\ stack' = Append(Popped, [Top EXCEPT !.pc = "rec"])
                              \o <<IpowFrame(Top.x, Top.pow - 1)>>
                 /\ ret' = NotYet
                 /\ maxDepth' = Max(maxDepth, Len(stack) + 1)
    /\ UNCHANGED <<input, numericVars, valueVars, codecVars, kernelVars>>

\* ipow, from the return of the recursive call to its own return
IpowReturn ==
    /\ Running("ipow", "rec")
    /\ Return([u64 |-> Top.x * ret.u64])
    /\ UNCHANGED <<input, numericVars, valueVars, codecVars, kernelVars>>

NextColumn ==
    ColumnEnter \/ ColumnRecurse \/ ColumnReturn \/ IpowEnter \/ IpowReturn

SpecColumn == InitColumn /\ [][NextColumn]_vars

\* The outermost call has returned.
ColumnDone == stack = <<>>

\* The call-by-call execution returns what the function returns.
ColumnAgrees == ColumnDone => ret = column_to_u64(input)

(***************************************************************************)
(* SpecKernel: the Kernel trait, kernel.rs lines 234-238.  The source      *)
(* declares set_cell and evaluate_cell and implements neither; the store,  *)
(* the dependency graph, the cache and both operations are modelled from   *)
(* the specification (3, 4.4, 7).  Cells are parsed by Value::from, and    *)
(* additions go through Numeric::try_add, as modelled above.               *)
(*                                                                         *)
(* The grid is row 1 of the columns A, B, ...; a cell holds a literal      *)
(* ("5", "10") or a formula "=<cell>+1" over a cell of the grid.           *)
(***************************************************************************)
Ids == {CellId(1, c) : c \in 0..(NumCols - 1)}

Empty == [tag |-> "Empty"]
Invalid == [tag |-> "Invalid"]

KernelTexts ==
    {<<53>>, <<49, 48>>} \cup {<<61, 65 + c, 49, 43, 49>> : c \in 0..(NumCols - 1)}

Circular(id) == [kind |-> "CircularReference", cell |-> id]
Unresolvable(id) == [kind |-> "UnresolvableReference", cell |-> id]
TypeMismatch == [kind |-> "TypeMismatch"]

\* the cells a parsed value refers to: the CellRef nodes of its formula
References(v) == IF v.kind = "Formula" THEN {v.formula.ref} ELSE {}

\* A plausible slip: only the cells that refer to the cell directly are found.
DirectDependents(set, g) == set \cup {c \in Ids : g[c] \cap set # {}}

\* set and every cell that depends on a cell of set, directly or not:
\* the reverse reachability walk over the graph g
RECURSIVE Dependents(_, _)
Dependents(set, g) ==
    LET more == set \cup {c \in Ids : g[c] \cap set # {}}
    IN  IF more = set THEN set ELSE Dependents(more, g)

Invalidate(c, ids) == [i \in Ids |-> IF i \in ids THEN Invalid ELSE c[i]]

\* A plausible slip: a cell met again on its own path counts as zero.
Reentered_as_zero(id) == Ok(Numeric(0, NoAttr))

\* what resolution answers for a cell that is in progress on its own path
Reentered(id) == Err(Circular(id))

\* the result n of cell id, stored as valid
Stored(id, n, c) == [res |-> Ok(n), cache |-> [c EXCEPT ![id] = [val |-> n]]]
Failed(e, c) == [res |-> Err(e), cache |-> c]

\* Evaluation of cell id with the cells of path in progress and the cache
\* c: the result and the cache afterwards.  A failure is never stored.
RECURSIVE Eval(_, _, _)
Eval(id, path, c) ==
    IF id \notin Ids THEN Failed(Unresolvable(id), c)
    ELSE IF c[id] # Invalid THEN [res |-> Ok(c[id].val), cache |-> c]
    ELSE IF id \in path THEN [res |-> Reentered(id), cache |-> c]
    ELSE IF cells[id] = Empty THEN Failed(Unresolvable(id), c)
    ELSE LET v == cells[id].value
         IN  IF v.kind = "Primitive" THEN Stored(id, v.prim, c)
             ELSE IF v.kind # "Formula" THEN Failed(TypeMismatch, c)
             ELSE LET r == Eval(v.formula.ref, path \cup {id}, c)
                  IN  IF ~r.res.ok THEN r
                      ELSE IF v.formula.node = "CellRef"
                           THEN Stored(id, r.res.v, r.cache)
                           ELSE LET sum == try_add(r.res.v, v.formula.num)
                                IN  IF sum = None
                                    THEN Failed(TypeMismatch, r.cache)
                                    ELSE Stored(id, sum.v, r.cache)

InitKernel ==
    /\ cells = [i \in Ids |-> Empty]
    /\ deps = [i \in Ids |-> {}]
    /\ cache = [i \in Ids |-> Invalid]
    /\ op = [name |-> "new"]
    /\ out = NotYet
    /\ NumericIdle /\ ValueIdle /\ CodecIdle /\ ColumnIdle

\* set_cell(id, t)
SetCell(id, t) ==
    LET cell == CellFrom(t)
        graph == [deps EXCEPT ![id] = References(cell.value)]
    IN  /\ cells' = [cells EXCEPT ![id] = cell]
        /\ deps' = graph
        /\ cache' = Invalidate(cache, Dependents({id}, graph))
        /\ op' = [name |-> "set_cell", id |-> id]
        /\ out' = NotYet
        /\ UNCHANGED <<numericVars, valueVars, codecVars, columnVars>>

\* evaluate_cell(id)
EvaluateCell(id) ==
    LET r == Eval(id, {}, cache)
    IN  /\ cache' = r.cache
        /\ out' = r.res
        /\ op' = [name |-> "evaluate_cell", id |-> id]
        /\ UNCHANGED <<cells, deps, numericVars, valueVars, codecVars, columnVars>>

NextKernel ==
    \/ \E id \in Ids, t \in KernelTexts : SetCell(id, t)
    \/ \E id \in Ids : EvaluateCell(id)

SpecKernel == InitKernel /\ [][NextKernel]_vars

(***************************************************************************)
(*                              PROPERTIES                                 *)
(***************************************************************************)

SameAttribute(x, y) ==
    /\ x.kind = y.kind
    /\ x.kind = "Currency" => x.sym = y.sym

Succeeds(r, at) == r.tag = "Some" /\ r.v.attr = at

\* C1: try_add follows the attribute-compatibility rule.  With exactly one
\* operand attributed the call succeeds and the result carries that
\* attribute; with none attributed the result has none; with both
\* attributed it succeeds with the attribute when the two are structurally
\* equal and returns None otherwise.  The call always returns.
TryAddAttributeRule ==
    addOut # NotYet =>
        /\ addOut.tag \in {"None", "Some"}
        /\ (a.attr = NoAttr /\ b.attr # NoAttr) => Succeeds(addOut, b.attr)
        /\ (a.attr # NoAttr /\ b.attr = NoAttr) => Succeeds(addOut, a.attr)
        /\ (a.attr = NoAttr /\ b.attr = NoAttr) => Succeeds(addOut, NoAttr)
        /\ (a.attr # NoAttr /\ b.attr # NoAttr) =>
              IF SameAttribute(a.attr, b.attr)
              THEN Succeeds(addOut, a.attr)
              ELSE addOut = None

\* C1 witness: Percent(10) + Currency("$") has returned None.
TryAddMismatchSeen ==
    /\ a = Numeric(10 * Scale, Percent)
    /\ b = Numeric(10 * Scale, Currency("$"))
    /\ addOut = None

\* C2: value() is the magnitude divided by 100 for Percent and the
\* magnitude itself for no attribute and for every Currency.
ValueAdjustsPercentOnly ==
    valueOut # NotYet =>
        IF a.attr = Percent
        THEN valueOut.v * Hundred = a.number
        ELSE valueOut.v = a.number

\* C2 witness: Percent with magnitude 50 has given 0.5.
ValueHalfSeen ==
    /\ a = Numeric(50 * Scale, Percent)
    /\ valueOut # NotYet
    /\ 2 * valueOut.v = Scale

\* C10: a successful addition preserves the effective value:
\* r.value() = a.value() + b.value().
AddPreservesValue ==
    (addOut # NotYet /\ addOut.tag = "Some") =>
        value(addOut.v) = value(a) + value(b)

IsFormulaKind(v) == v.kind \in {"Formula", "FormulaParseError"}

\* what the first character of t decides about the value v made from it
ClassifiedBy(t, v) ==
    /\ IsFormulaKind(v) <=> StartsWith(t, 61)
    /\ StartsWith(t, 61) => v.arg = Tail(t)
    /\ ~StartsWith(t, 61) =>
          v.kind = IF PrimitiveTryFrom(v.arg).ok THEN "Primitive" ELSE "Raw"

\* C3 as written: Value::from classifies the text by its first character;
\* Formula or FormulaParseError exactly when the text starts with '=', the
\* formula parser being given the text after that '='; Primitive or Raw
\* otherwise, by the outcome of literal parsing.
ClassifiesByFirstChar == fromOut # NotYet => ClassifiedBy(text, fromOut)

\* C3 amended: the same, of the text with the white space at both of its
\* ends removed.
ClassifiesTrimmedByFirstChar ==
    fromOut # NotYet => ClassifiedBy(Trim(text), fromOut)

\* C3 witness: a text that starts with a blank, not with '=', has been
\* classified as a formula.
BlankBeforeEqualsSeen ==
    /\ fromOut # NotYet
    /\ ~StartsWith(text, 61)
    /\ IsFormulaKind(fromOut)

Letters == UpperLetters \cup LowerLetters

\* a label of the sequence A, B, ..., Z, AA, AB, ...
IsColumnLabel(s) == s # <<>> /\ AllIn(s, UpperLetters)

\* a label split into its run of letters and its run of digits, for a
\* label made of one non-empty run of each
WellFormed(s) ==
    \E k \in 1..(Len(s) - 1) :
        AllIn(SubSeq(s, 1, k), Letters) /\ AllIn(SubSeq(s, k + 1, Len(s)), Digits)
SplitOf(s) ==
    LET k == CHOOSE k \in 1..(Len(s) - 1) :
                 AllIn(SubSeq(s, 1, k), Letters)
                 /\ AllIn(SubSeq(s, k + 1, Len(s)), Digits)
    IN  <<SubSeq(s, 1, k), SubSeq(s, k + 1, Len(s))>>

\* C4: the decoder supports the round trip: column_to_u64 accepts every
\* label of the sequence A, ..., Z, AA, AB, ..., gives distinct labels of
\* the sequence distinct indices, and split_id splits a well-formed label
\* into its letters and its digits.
DecodeSupportsRoundTrip ==
    /\ (colOut # NotYet /\ IsColumnLabel(label)) =>
          /\ colOut.ok
          /\ \A other \in Labels :
                (IsColumnLabel(other) /\ other # label) =>
                    column_to_u64(other) # colOut
    /\ (splitOut # NotYet /\ WellFormed(label)) => splitOut = Ok(SplitOf(label))

\* the first character of s that is neither a letter nor a digit
Others(s) == {i \in 1..Len(s) : s[i] \notin Letters \cup Digits}
FirstOther(s) == s[CHOOSE i \in Others(s) : \A j \in Others(s) : i <= j]

\* C5: decoding rejects a malformed label with an error kind of its own:
\* no decoding function accepts the empty label; a label that does not
\* start with a letter gives DidntStartAlpha; letters without digits give
\* DidntContainNumber; a character that is neither gives UnexpectedChar
\* carrying it.
DecodeRejectsMalformed ==
    /\ (colOut # NotYet /\ label = <<>>) => ~colOut.ok
    /\ (splitOut # NotYet /\ label = <<>>) => ~splitOut.ok
    /\ (splitOut # NotYet /\ label # <<>> /\ AllIn(label, Letters \cup Digits)
          /\ label[1] \notin Letters) => splitOut = Err(DidntStartAlpha)
    /\ (splitOut # NotYet /\ label # <<>> /\ AllIn(label, Letters)) =>
          splitOut = Err(DidntContainNumber)
    /\ (splitOut # NotYet /\ Others(label) # {}) =>
          splitOut = Err(UnexpectedChar(FirstOther(label)))

SameOutcome(x, y) == IF x.ok THEN y.ok /\ x.v = y.v ELSE ~y.ok

\* C8: decoding a column label is case-insensitive: the upper-case and the
\* lower-case form of a string of letters are both rejected or both
\* accepted with the same index.
ColumnCaseInsensitive ==
    (upperOut # NotYet /\ AllIn(label, Letters)) => SameOutcome(upperOut, lowerOut)

\* C8 witness: a label of both cases has been decoded, in both forms, to a
\* column other than the first.
MixedCaseDecodedSeen ==
    /\ upperOut # NotYet
    /\ AllIn(label, Letters)
    /\ label \notin {ToUpper(label), ToLower(label)}
    /\ upperOut.ok /\ lowerOut.ok
    /\ lowerOut.v > 0

\* C9: decoding terminates with the call stack no deeper than a loop needs,
\* whatever the length of the label: the call of column_to_u64 and at most
\* one call below it.
ColumnDepthFixed == maxDepth <= 2

\* the cells cell c refers to, read from the cell's own text
RefsOf(c) == IF cells[c] = Empty THEN {} ELSE References(cells[c].value)

\* the cells reachable from the cells of set through one or more references
RECURSIVE ReachedFrom(_)
ReachedFrom(set) ==
    LET more == set \cup UNION {RefsOf(c) : c \in set \cap Ids}
    IN  IF more = set THEN set ELSE ReachedFrom(more)
Reachable(c) == ReachedFrom(RefsOf(c))

OnCycle(c) == c \in Reachable(c)

\* evaluation of id, which follows every reference, enters a cycle
EntersCycle(id) == \E c \in ({id} \cup Reachable(id)) \cap Ids : OnCycle(c)

\* the evaluation of id that uses no cached result
FreshEval(id) == Eval(id, {}, [i \in Ids |-> Invalid]).res

\* C6: the cache is correct under every sequence of set_cell and
\* evaluate_cell: evaluate_cell returns what an evaluation without the cache
\* returns for the current texts, every result held as valid is that
\* result, and set_cell evaluates nothing (it stores no result).
CacheCorrect ==
    /\ [](/\ op.name = "evaluate_cell" => out = FreshEval(op.id)
          /\ \A id \in Ids :
                cache[id] # Invalid => FreshEval(id) = Ok(cache[id].val))
    /\ [][op'.name = "set_cell" =>
            \A id \in Ids : cache'[id] \in {Invalid, cache[id]}]_vars

\* C6 witness: with A1 holding 10 and B1 holding =A1+1, evaluate_cell(B1)
\* has returned 11, and A1's result is held in the cache.
EvaluatedElevenSeen ==
    /\ op = [name |-> "evaluate_cell", id |-> CellId(1, 1)]
    /\ cells[CellId(1, 0)] = CellFrom(<<49, 48>>)
    /\ cells[CellId(1, 1)] = CellFrom(<<61, 65, 49, 43, 49>>)
    /\ out = Ok(Numeric(11 * Scale, NoAttr))
    /\ cache[CellId(1, 0)] # Invalid

\* C7: when the evaluation of id enters a cycle of references,
\* evaluate_cell(id) returns a circular-reference error that names a cell
\* of the cycle, and afterwards no cell of a cycle reached from id holds a
\* valid cached result.
CycleDetected ==
    (op.name = "evaluate_cell" /\ EntersCycle(op.id)) =>
        /\ ~out.ok
        /\ out.e.kind = "CircularReference"
        /\ OnCycle(out.e.cell)
        /\ \A c \in ({op.id} \cup Reachable(op.id)) \cap Ids :
              OnCycle(c) => cache[c] = Invalid

\* C7 witness: A1 and B1 refer to each other and evaluate_cell(A1) has
\* returned the circular-reference error.
CycleReportedSeen ==
    /\ op = [name |-> "evaluate_cell", id |-> CellId(1, 0)]
    /\ RefsOf(CellId(1, 0)) = {CellId(1, 1)}
    /\ RefsOf(CellId(1, 1)) = {CellId(1, 0)}
    /\ ~out.ok
    /\ out.e.kind = "CircularReference"

=============================================================================
